---------------------------- MODULE Spec2Model ----------------------------
(***************************************************************************)
(* Model of the LTHR estimator (src/LTHREstimate.py): the normalizer      *)
(* parse_fit_file, the threshold estimator                                 *)
(* calculate_lthr_from_last_20_minutes, the band generator                 *)
(* calculate_heart_rate_zones, the sample classifier classify_zone and the *)
(* custom data export, driven in the order main() calls them; and of the   *)
(* race dashboard (src/race_analysis_app.py): load_race_data behind its    *)
(* cache, the combination of the selected categories and the markers of    *)
(* create_scatterplot.                                                     *)
(*                                                                         *)
(* Representation.                                                         *)
(*   - An optional value (Python None, a pandas NaN cell, a pandas NaT     *)
(*     timestamp) is the empty sequence << >>; a present value v is <<v>>. *)
(*   - A float is an exact fraction [n |-> numerator, d |-> denominator]   *)
(*     with d > 0; the float nan is the fraction 0/0.  Products and        *)
(*     quotients are computed exactly, a literal such as 0.62 being        *)
(*     62/100.                                                             *)
(*   - Timestamps are whole seconds.                                       *)
(*   - A DataFrame is [isNone, hasHR, rows]: isNone for the Python None,   *)
(*     hasHR for 'heart_rate' in df.columns, rows the samples in index     *)
(*     order, each [timestamp, heart_rate].                                *)
(***************************************************************************)
EXTENDS Integers, Sequences, FiniteSets, TLC

VARIABLES
    pc,                     \* position in main(): "loaded", "estimated", "zoned", "classified"
    df,                     \* the normalized session handed to the estimator
    avg_hr_last_20min,      \* main()'s locals unpacked from the estimator's tuple
    lthr,
    total_duration_minutes,
    last_20_min_data,       \* the estimator's local: the rows the mean is taken over
    used_all_data,          \* the estimator took the branch of line 108
    zones,                  \* the ordered dict of calculate_heart_rate_zones; << >> before
    hr,                     \* the value last handed to classify_zone
    hr_zone,                \* what classify_zone returned for it; "" before
    records,                \* the record messages of the uploaded file, in file order
    sort_index,             \* the index of the sorted table before reset_index
    df_index,               \* the index of the table parse_fit_file returns
    selected_fields,        \* the fields ticked for the custom export
    export_df,              \* the custom export table; None when none is offered
    disk,                   \* the Dataset folder: [ok, data]
    cache,                  \* what st.cache_data holds for load_race_data
    loads,                  \* completed runs of load_race_data's body in this process
    load_kind,              \* what the last call of load_race_data did
    data_dict,              \* main's data_dict
    selected_event,         \* the event of the select box
    selected_categories,    \* the ticked categories, in sorted order
    search_name,            \* the text of the search box
    combined_df,            \* the combined table; None when not built
    metrics,                \* the metrics shown; None when not computed
    highlighted_name,       \* create_scatterplot's highlighted_name
    fig,                    \* the markers of the figure; None when not drawn
    outcome                 \* how the last pass of the dashboard ended

normVars == <<records, sort_index, df_index>>
exportVars == <<selected_fields, export_df>>
runVars == <<data_dict, selected_event, selected_categories, search_name,
             combined_df, metrics, fig, outcome>>
raceVars == <<disk, cache, loads, load_kind, runVars, highlighted_name>>

vars == <<pc, df, avg_hr_last_20min, lthr, total_duration_minutes,
          last_20_min_data, used_all_data, zones, hr, hr_zone,
          normVars, exportVars, raceVars>>

----------------------------------------------------------------------------
(* Bounds of the model *)

\* longest session (number of samples)
MaxLen == 3
\* timestamps are 0, 600, ..., 600 * MaxTick seconds
MaxTick == 3
\* thresholds handed directly to the band generator run over -MaxTh .. MaxTh ...
MaxTh == 152
\* ... in steps of 1 / ThDen
ThDen == 2
\* values handed directly to the classifier run over -MaxHr .. MaxHr
MaxHr == 158
MaxRecords == 3     \* record messages in an uploaded file
MaxRows == 3        \* rows of a category's results file
MaxPos == 4         \* the ranks of the rows handed to create_scatterplot
MaxPlotRows == 2    \* rows of a table handed to create_scatterplot on its own

----------------------------------------------------------------------------
(* Optional values and floats *)

None == << >>
NaN == << >>
NaT == << >>
Some(v) == <<v>>
IsNone(x) == x = << >>
Val(x) == x[1]

Frac(n, d) == [n |-> n, d |-> d]
FloatNaN == Frac(0, 0)
IsNaNFloat(f) == f.d = 0
\* equality of two floats that are not nan
FracEq(a, b) == a.n * b.d = b.n * a.d

\* math.floor(x) in place of int(x)
IntFloor(n, d) == IF n >= 0 THEN n \div d ELSE -(((-n) + d - 1) \div d)

\* Python's int(x) for the float n / d, d > 0: truncation toward zero
IntTrunc(n, d) == IF n >= 0 THEN n \div d ELSE -((-n) \div d)

RECURSIVE SeqSum(_)
SeqSum(s) == IF s = << >> THEN 0 ELSE Head(s) + SeqSum(Tail(s))

----------------------------------------------------------------------------
(* Sessions: what parse_fit_file can hand over *)

\* timestamps of the samples, in seconds
Times == {600 * k : k \in 0 .. MaxTick}
\* heart-rate readings of the samples
HeartRates == {100, 110, 120}

\* sort_values('timestamp') (line 63): ascending, NaT last
IsSortedByTimestamp(rows) ==
    \A i, j \in 1 .. Len(rows) :
        i < j =>
            /\ IsNone(rows[i].timestamp) => IsNone(rows[j].timestamp)
            /\ (~IsNone(rows[i].timestamp) /\ ~IsNone(rows[j].timestamp))
                   => Val(rows[i].timestamp) <= Val(rows[j].timestamp)

RowSeqs ==
    UNION {[1 .. l -> [timestamp : {Some(t) : t \in Times} \cup {NaT},
                        heart_rate : {Some(h) : h \in HeartRates} \cup {NaN}]]
           : l \in 0 .. MaxLen}

NoneDf == [isNone |-> TRUE, hasHR |-> FALSE, rows |-> << >>]

\* every DataFrame the estimator is applied to: None, or a table sorted by
\* timestamp; without a heart_rate column every heart_rate cell is missing
Sessions ==
    {NoneDf} \cup
    {d \in [isNone : {FALSE}, hasHR : BOOLEAN,
            rows : {x \in RowSeqs : IsSortedByTimestamp(x)}] :
        d.hasHR \/ \A i \in 1 .. Len(d.rows) : IsNone(d.rows[i].heart_rate)}

----------------------------------------------------------------------------
(* Normalizer: parse_fit_file *)

\* the fields of a record message the model carries: two names of the
\* allow-list (lines 33-49) and one name outside it
RecognizedFields == {"timestamp", "heart_rate"}
FieldNames == RecognizedFields \cup {"unknown_110"}

\* field.value: a timestamp may decode to None
FieldValues(f) ==
    CASE f = "timestamp" -> {None, Some(0), Some(600)}
      [] f = "heart_rate" -> {Some(100), Some(120)}
      [] OTHER -> {Some(0)}

\* a record message: any subset of the fields, each with a value
RawRecords ==
    UNION {{r \in [F -> UNION {FieldValues(f) : f \in FieldNames}] :
               \A f \in F : r[f] \in FieldValues(f)}
           : F \in SUBSET FieldNames}

\* fitfile.get_messages('record'), in file order
RecordSeqs == UNION {[1 .. l -> RawRecords] : l \in 0 .. MaxRecords}

\* lines 29-50: the recognized fields of a record
data_point(record) ==
    [f \in DOMAIN record \cap RecognizedFields |-> record[f]]

\* admission that also asks for a heart_rate field
HasTimestampAndHeartRate(dp) ==
    "timestamp" \in DOMAIN dp /\ "heart_rate" \in DOMAIN dp

\* line 53: 'timestamp' in data_point
HasTimestamp(dp) == "timestamp" \in DOMAIN dp

\* lines 28-54: the data points appended to all_data, in file order
all_data(recs) ==
    SelectSeq([i \in 1 .. Len(recs) |-> data_point(recs[i])], HasTimestamp)

\* pd.to_datetime (line 62): None becomes NaT
to_datetime(v) == IF IsNone(v) THEN NaT ELSE Some(Val(v))

\* pd.DataFrame(all_data) (line 59) with the timestamp column converted:
\* a key a data point lacks is a NaN cell
FrameRows(data) ==
    [i \in 1 .. Len(data) |->
        [timestamp |-> to_datetime(data[i]["timestamp"]),
         heart_rate |-> IF "heart_rate" \in DOMAIN data[i]
                        THEN data[i]["heart_rate"] ELSE NaN]]

HasHeartRateColumn(data) ==
    \E i \in 1 .. Len(data) : "heart_rate" \in DOMAIN data[i]

Perms(n) == {p \in [1 .. n -> 1 .. n] : \A i, j \in 1 .. n : p[i] = p[j] => i = j}

Permute(rows, p) == [i \in 1 .. Len(rows) |-> rows[p[i]]]

\* an indexer that leaves the rows in file order
UnsortedIndexers(rows) == {[i \in 1 .. Len(rows) |-> i]}

\* sort_values('timestamp') (line 63) with the default kind='quicksort':
\* the rows come out ascending with the NaT rows last and in their input
\* order; quicksort promises no order among rows with equal timestamps
SortIndexers(rows) ==
    {p \in Perms(Len(rows)) :
        /\ IsSortedByTimestamp(Permute(rows, p))
        /\ \A i, j \in 1 .. Len(rows) :
               (i < j /\ IsNone(rows[p[i]].timestamp)
                      /\ IsNone(rows[p[j]].timestamp)) => p[i] < p[j]}

\* the index left as sort_values made it
KeptIndex(p) == [i \in 1 .. Len(p) |-> p[i] - 1]

\* reset_index(drop=True) (line 63): a fresh index 0 .. n-1
reset_index(p) == [i \in 1 .. Len(p) |-> i - 1]

----------------------------------------------------------------------------
(* Threshold estimator: calculate_lthr_from_last_20_minutes *)

\* a window of timedelta(minutes=10)
WindowSecondsTenMinutes == 10 * 60

\* timedelta(minutes=20), in seconds
WindowSeconds == 20 * 60

\* Timestamp - timedelta; NaT - timedelta is NaT
TimestampMinus(t, secs) == IF IsNone(t) THEN NaT ELSE Some(Val(t) - secs)

\* the comparison written > instead of >=
TimestampGt(a, b) == ~IsNone(a) /\ ~IsNone(b) /\ Val(a) > Val(b)

\* Timestamp >= Timestamp; every comparison with NaT is False
TimestampGe(a, b) == ~IsNone(a) /\ ~IsNone(b) /\ Val(a) >= Val(b)

\* (end_time - start_time).total_seconds() / 60; nan when either is NaT
DurationMinutes(start_time, end_time) ==
    IF IsNone(start_time) \/ IsNone(end_time)
    THEN FloatNaN
    ELSE Frac(Val(end_time) - Val(start_time), 60)

\* the boundary taken after the end: end_time + timedelta(minutes=20)
last_20_min_start_after_end(rows) ==
    TimestampMinus(rows[Len(rows)].timestamp, -WindowSeconds)

\* end_time - timedelta(minutes=20)
last_20_min_start(rows) == TimestampMinus(rows[Len(rows)].timestamp, WindowSeconds)

\* df[df['timestamp'] >= last_20_min_start]
WindowRows(rows) ==
    LET start == last_20_min_start(rows)
    IN SelectSeq(rows, LAMBDA r : TimestampGe(r.timestamp, start))

\* lines 104-108: the window, or all data when the window is empty
SelectLast20Min(rows) ==
    IF Len(WindowRows(rows)) = 0 THEN rows ELSE WindowRows(rows)

\* Series.dropna()
DropNa(rows) == SelectSeq(rows, LAMBDA r : ~IsNone(r.heart_rate))

\* Series.dropna().mean(): sum of the present values over their count, nan when
\* there is none
HeartRateMean(rows) ==
    LET present == DropNa(rows)
    IN IF Len(present) = 0
       THEN FloatNaN
       ELSE Frac(SeqSum([i \in 1 .. Len(present) |-> Val(present[i].heart_rate)]),
                 Len(present))

\* avg * 0.95
TimesPoint95(avg) == Frac(avg.n * 95, avg.d * 100)

NoneResult ==
    [avg |-> None, lthr |-> None, dur |-> None, data |-> << >>, all_data |-> FALSE]

\* .isna().any() in place of .isna().all()
AnyHeartRateNa(rows) == \E i \in 1 .. Len(rows) : IsNone(rows[i].heart_rate)

\* df['heart_rate'].isna().all()
AllHeartRateNa(rows) == \A i \in 1 .. Len(rows) : IsNone(rows[i].heart_rate)

\* the whole function; data and all_data expose its locals
calculate_lthr_from_last_20_minutes(d) ==
    IF d.isNone \/ Len(d.rows) = 0
    THEN NoneResult
    ELSE IF ~d.hasHR \/ AllHeartRateNa(d.rows)
    THEN NoneResult
    ELSE LET data == SelectLast20Min(d.rows)
             all  == Len(WindowRows(d.rows)) = 0
             avg  == HeartRateMean(data)
         IN IF IsNaNFloat(avg)
            THEN [NoneResult EXCEPT !.data = data, !.all_data = all]
            ELSE [avg |-> Some(avg),
                  lthr |-> Some(TimesPoint95(avg)),
                  dur |-> Some(DurationMinutes(d.rows[1].timestamp,
                                               d.rows[Len(d.rows)].timestamp)),
                  data |-> data,
                  all_data |-> all]

----------------------------------------------------------------------------
(* Band generator: calculate_heart_rate_zones *)

\* int(lthr * pct / 100) for the float literals 0.62 ... 1.03
ZoneBound(l, pct) == IntTrunc(l.n * pct, l.d * 100)

\* the two bounds of the tuple in the other order
ZoneSwapped(key, l, lowPct, highPct) ==
    [key |-> key, range |-> <<ZoneBound(l, highPct), ZoneBound(l, lowPct)>>]

\* one entry of the dict: its key and its 'range' tuple
Zone(key, l, lowPct, highPct) ==
    [key |-> key, range |-> <<ZoneBound(l, lowPct), ZoneBound(l, highPct)>>]

\* Z2 starting at 78% instead of 77%
calculate_heart_rate_zones_78(l) ==
    << Zone("Z1", l, 62, 77),
       Zone("Z2", l, 78, 86),
       Zone("Z3", l, 86, 91),
       Zone("Z4", l, 91, 95),
       Zone("Z5", l, 95, 103) >>

\* the dict, in insertion order
calculate_heart_rate_zones(l) ==
    << Zone("Z1", l, 62, 77),
       Zone("Z2", l, 77, 86),
       Zone("Z3", l, 86, 91),
       Zone("Z4", l, 91, 95),
       Zone("Z5", l, 95, 103) >>

----------------------------------------------------------------------------
(* Sample classifier: classify_zone *)

\* zones[key]
ZoneByKey(z, key) == z[CHOOSE k \in 1 .. Len(z) : z[k].key = key]

\* the interval open at its lower end
InRangeHalfOpen(v, zone_info) ==
    zone_info.range[1] < v /\ v <= zone_info.range[2]

\* zone_info['range'][0] <= hr <= zone_info['range'][1]
InRange(v, zone_info) == zone_info.range[1] <= v /\ v <= zone_info.range[2]

\* >= in place of >
OutOfRangeLabelGe(v, z) ==
    IF v >= ZoneByKey(z, "Z5").range[2] THEN "Above Z5" ELSE "Below Z1"

\* line 453
OutOfRangeLabel(v, z) ==
    IF v > ZoneByKey(z, "Z5").range[2] THEN "Above Z5" ELSE "Below Z1"

\* the loop run over reversed(zones.items())
RECURSIVE ScanZonesDown(_, _, _)
ScanZonesDown(v, z, k) ==
    IF k > Len(z) THEN OutOfRangeLabel(v, z)
    ELSE IF InRange(v, z[Len(z) + 1 - k]) THEN z[Len(z) + 1 - k].key
    ELSE ScanZonesDown(v, z, k + 1)

\* the for loop of lines 450-452 from item k on, then line 453
RECURSIVE ScanZones(_, _, _)
ScanZones(v, z, k) ==
    IF k > Len(z) THEN OutOfRangeLabel(v, z)
    ELSE IF InRange(v, z[k]) THEN z[k].key
    ELSE ScanZones(v, z, k + 1)

\* without the pd.isna test every comparison with nan is False
classify_zone_no_isna(h, z) ==
    IF IsNone(h) THEN "Below Z1" ELSE ScanZones(Val(h), z, 1)

classify_zone(h, z) ==
    IF IsNone(h) THEN "No Data" ELSE ScanZones(Val(h), z, 1)

----------------------------------------------------------------------------
(* Race dashboard (src/race_analysis_app.py): strings, tables, the cached *)
(* loader, the combination of categories and the scatter plot markers     *)

\* a string is the sequence of its characters
LowerChar(c) ==
    CASE c = "A" -> "a"
      [] c = "B" -> "b"
      [] OTHER -> c

\* str.lower()
lower(s) == [i \in 1 .. Len(s) |-> LowerChar(s[i])]

RECURSIVE lstrip(_)
lstrip(s) == IF s # << >> /\ Head(s) = " " THEN lstrip(Tail(s)) ELSE s

RECURSIVE rstrip(_)
rstrip(s) ==
    IF s # << >> /\ s[Len(s)] = " " THEN rstrip(SubSeq(s, 1, Len(s) - 1)) ELSE s

\* str.strip()
strip(s) == rstrip(lstrip(s))

\* the names of participants and the texts of the search box the model uses
Names == {<<"a">>, <<"A", " ">>, <<"b">>, <<" ">>}
SearchTexts == {<< >>, <<"a">>, <<" ", "A">>, <<" ">>, <<"B">>}

\* the texts typed into the dashboard's search box
RaceSearchTexts == {<< >>, <<" ", "a">>, <<"b">>}

\* PODIUM_COLORS, DEFAULT_COLOR, HIGHLIGHT_COLOR (lines 11-17)
PODIUM_COLORS == (1 :> "#FFD700") @@ (2 :> "#C0C0C0") @@ (3 :> "#CD7F32")
DEFAULT_COLOR == "#1f77b4"
HIGHLIGHT_COLOR == "#FF0000"

\* truth value of an optional string: None and '' are false
Truthy(h) == ~IsNone(h) /\ Val(h) # << >>

HighlightMarker == [color |-> HIGHLIGHT_COLOR, size |-> 15, symbol |-> "star"]
PodiumMarker(position) ==
    [color |-> PODIUM_COLORS[position], size |-> 12, symbol |-> "circle"]
DefaultMarker == [color |-> DEFAULT_COLOR, size |-> 8, symbol |-> "circle"]

\* the podium test made before the name test
MarkerPodiumFirst(row, highlighted) ==
    IF row.Pos \in DOMAIN PODIUM_COLORS
    THEN PodiumMarker(row.Pos)
    ELSE IF Truthy(highlighted)
            /\ lower(strip(row.Name)) = lower(strip(Val(highlighted)))
         THEN HighlightMarker
         ELSE DefaultMarker

\* lines 81-96: color, size and symbol of one row
Marker(row, highlighted) ==
    IF Truthy(highlighted)
       /\ lower(strip(row.Name)) = lower(strip(Val(highlighted)))
    THEN HighlightMarker
    ELSE IF row.Pos \in DOMAIN PODIUM_COLORS
         THEN PodiumMarker(row.Pos)
         ELSE DefaultMarker

\* create_scatterplot (lines 65-142): one trace per row, in row order
create_scatterplot(table, highlighted) ==
    [i \in 1 .. Len(table) |-> Marker(table[i], highlighted)]

\* the categories of the model, in sorted() order
CategoryOrder == <<"Elite Men", "Elite Women">>
Categories == {CategoryOrder[i] : i \in 1 .. Len(CategoryOrder)}
Events == {"Asia Triathlon Cup 2024 (2024-05-01)"}

\* sorted(S) for a set of category names
SortedCategories(S) ==
    LET In(c) == c \in S IN SelectSeq(CategoryOrder, In)

\* the rows of a results file: rank and name
ResultRows(maxPos, names) == [Pos : 1 .. maxPos, Name : names]

TablesOf(rows, maxRows) == UNION {[1 .. l -> rows] : l \in 0 .. maxRows}

\* what load_race_data builds from a Dataset folder (lines 32-63): nothing,
\* or one event with at least one category, each a table
DatasetsOf(rows, first, others) ==
    {<< >>} \cup
    {[e \in Events |-> cats] :
        cats \in UNION {{c \in [S -> TablesOf(rows, first)] :
                            \A k \in S : k # CategoryOrder[1]
                                             => Len(c[k]) <= others}
                        : S \in SUBSET Categories \ {{}}}}

\* st.cache_data with the cached value dropped on every call
CacheLookupDisabled(c) == None

\* st.cache_data (line 28): the value stored for load_race_data(), if any
CacheLookup(c) == c

\* data_dict = load_race_data() (lines 149-153) on a folder d with the cache
\* c: the stored value when there is one, else the body is run, which
\* raises when a file cannot be read, and its return value is stored; kind
\* tells which of these happened, and whether the stored value served is
\* still what the folder holds
LoadRaceData(c, d) ==
    IF ~IsNone(CacheLookup(c))
    THEN [raised |-> FALSE, value |-> CacheLookup(c), cache |-> c, ran |-> FALSE,
          kind |-> IF d.ok /\ Some(d.data) = c THEN "cached" ELSE "cached_stale"]
    ELSE IF ~d.ok
         THEN [raised |-> TRUE, value |-> None, cache |-> c, ran |-> FALSE,
               kind |-> "raised"]
         ELSE [raised |-> FALSE, value |-> Some(d.data),
               cache |-> Some(d.data), ran |-> TRUE, kind |-> "read"]

\* .assign(Category=cat) (line 192)
assign_Category(table, cat) ==
    [i \in 1 .. Len(table) |->
        [Pos |-> table[i].Pos, Name |-> table[i].Name, Category |-> cat]]

\* the frames joined last to first
RECURSIVE concat_reversed(_)
concat_reversed(frames) ==
    IF frames = << >> THEN << >>
    ELSE concat_reversed(Tail(frames)) \o Head(frames)

\* pd.concat(frames, ignore_index=True) (lines 191-195)
RECURSIVE concat(_)
concat(frames) ==
    IF frames = << >> THEN << >> ELSE Head(frames) \o concat(Tail(frames))

\* lines 191-195: the combined table of the selected categories
Combine(tables, selected) ==
    concat([k \in 1 .. Len(selected) |->
               assign_Category(tables[selected[k]], selected[k])])

\* a test that lets every selection through
AnySelection(selected) == TRUE

\* line 190: if selected_categories
NonEmptySelection(selected) == selected # << >>

----------------------------------------------------------------------------
(* main(): one pass over an uploaded file *)

\* available_fields = list(df.columns) (line 316)
available_fields(d) ==
    {"timestamp"} \cup (IF d.hasHR THEN {"heart_rate"} ELSE {})

\* the last row's timestamp taken for the first
iloc_last(rows) == rows[Len(rows)].timestamp

\* ['timestamp'].iloc[0] (lines 459, 467)
iloc_0(rows) == rows[1].timestamp

\* (Timestamp - Timestamp).dt.total_seconds() (line 459): NaN when either
\* is NaT
total_seconds(t, first) ==
    IF IsNone(t) \/ IsNone(first) THEN FloatNaN ELSE Frac(Val(t) - Val(first), 1)

\* float / 60 (line 460)
DividedBy60(f) == IF IsNaNFloat(f) THEN FloatNaN ELSE Frac(f.n, f.d * 60)

\* the columns of export_df (lines 443-460)
ExportColumns(selected, l) ==
    selected
    \cup (IF "heart_rate" \in selected /\ ~IsNone(l) THEN {"hr_zone", "lthr"} ELSE {})
    \cup (IF "timestamp" \in selected
          THEN {"time_elapsed_seconds", "time_elapsed_minutes"} ELSE {})

\* the cell of one row of export_df in one of its columns
ExportCell(rows, i, column, l, z) ==
    CASE column = "timestamp" -> rows[i].timestamp
      [] column = "heart_rate" -> rows[i].heart_rate
      [] column = "hr_zone" -> classify_zone(rows[i].heart_rate, z)
      [] column = "lthr" -> Val(l)
      [] column = "time_elapsed_seconds" ->
             total_seconds(rows[i].timestamp, iloc_0(rows))
      [] column = "time_elapsed_minutes" ->
             DividedBy60(total_seconds(rows[i].timestamp, iloc_0(rows)))

\* lines 443-460: export_df
ExportFrame(d, selected, l, z) ==
    [columns |-> ExportColumns(selected, l),
     rows |-> [i \in 1 .. Len(d.rows) |->
                  [column \in ExportColumns(selected, l) |->
                      ExportCell(d.rows, i, column, l, z)]]]

\* before a file is parsed, and before the export is built
NormIdle == records = << >> /\ sort_index = << >> /\ df_index = << >>
ExportIdle == selected_fields = {} /\ export_df = None

\* the locals of the dashboard's main() before a pass
RunIdle ==
    /\ data_dict = None
    /\ selected_event = None
    /\ selected_categories = << >>
    /\ search_name = << >>
    /\ combined_df = None
    /\ metrics = None
    /\ fig = None
    /\ outcome = ""

\* the dashboard is not running
RaceIdle ==
    /\ disk = [ok |-> TRUE, data |-> << >>]
    /\ cache = None
    /\ loads = 0
    /\ load_kind = ""
    /\ RunIdle
    /\ highlighted_name = None

Init ==
    /\ pc = "loaded"
    /\ df \in Sessions
    /\ avg_hr_last_20min = None
    /\ lthr = None
    /\ total_duration_minutes = None
    /\ last_20_min_data = << >>
    /\ used_all_data = FALSE
    /\ zones = << >>
    /\ hr = NaN
    /\ hr_zone = ""
    /\ NormIdle
    /\ ExportIdle
    /\ RaceIdle

\* line 253; the estimator is applied to every DataFrame it accepts, None and
\* the empty table included (main() itself calls it only past the test of line 248)
CalculateLthr ==
    /\ pc = "loaded"
    /\ LET res == calculate_lthr_from_last_20_minutes(df)
       IN /\ avg_hr_last_20min' = res.avg
          /\ lthr' = res.lthr
          /\ total_duration_minutes' = res.dur
          /\ last_20_min_data' = res.data
          /\ used_all_data' = res.all_data
    /\ pc' = "estimated"
    /\ UNCHANGED <<df, zones, hr, hr_zone>>
    /\ UNCHANGED <<normVars, exportVars, raceVars>>

\* lines 255-260: zones are computed only when the estimator gave a threshold
CalculateZones ==
    /\ pc = "estimated"
    /\ ~IsNone(lthr)
    /\ zones' = calculate_heart_rate_zones(Val(lthr))
    /\ pc' = "zoned"
    /\ UNCHANGED <<df, avg_hr_last_20min, lthr, total_duration_minutes,
                   last_20_min_data, used_all_data, hr, hr_zone>>
    /\ UNCHANGED <<normVars, exportVars, raceVars>>

\* line 455: classify_zone applied to one row of export_df['heart_rate']
ExportClassify ==
    /\ pc = "zoned"
    /\ df.hasHR
    /\ \E i \in 1 .. Len(df.rows) :
           /\ hr' = df.rows[i].heart_rate
           /\ hr_zone' = classify_zone(df.rows[i].heart_rate, zones)
    /\ pc' = "classified"
    /\ UNCHANGED <<df, avg_hr_last_20min, lthr, total_duration_minutes,
                   last_20_min_data, used_all_data, zones>>
    /\ UNCHANGED <<normVars, exportVars, raceVars>>

\* lines 436-477 with no field ticked: the warning of line 477
ExportNothingSelected ==
    /\ pc = "zoned"
    /\ selected_fields' = {}
    /\ export_df' = None
    /\ pc' = "export_warned"
    /\ UNCHANGED <<df, avg_hr_last_20min, lthr, total_duration_minutes,
                   last_20_min_data, used_all_data, zones, hr, hr_zone>>
    /\ UNCHANGED <<normVars, raceVars>>

\* lines 436-467 when the first timestamp is NaT: strftime raises while the
\* download button is made (line 467), main's except clause (line 525)
\* reports it and no export is offered
ExportRaises ==
    /\ pc = "zoned"
    /\ IsNone(iloc_0(df.rows))
    /\ \E selected \in SUBSET available_fields(df) \ {{}} :
           selected_fields' = selected
    /\ export_df' = None
    /\ pc' = "export_error"
    /\ UNCHANGED <<df, avg_hr_last_20min, lthr, total_duration_minutes,
                   last_20_min_data, used_all_data, zones, hr, hr_zone>>
    /\ UNCHANGED <<normVars, raceVars>>

\* lines 436-474: the export of the ticked fields
ExportCustomData ==
    /\ pc = "zoned"
    /\ ~IsNone(iloc_0(df.rows))
    /\ \E selected \in SUBSET available_fields(df) \ {{}} :
           /\ selected_fields' = selected
           /\ export_df' = Some(ExportFrame(df, selected, lthr, zones))
    /\ pc' = "exported"
    /\ UNCHANGED <<df, avg_hr_last_20min, lthr, total_duration_minutes,
                   last_20_min_data, used_all_data, zones, hr, hr_zone>>
    /\ UNCHANGED <<normVars, raceVars>>

Next ==
    \/ CalculateLthr
    \/ CalculateZones
    \/ ExportClassify
    \/ ExportNothingSelected
    \/ ExportRaises
    \/ ExportCustomData

Spec == Init /\ [][Next]_vars

----------------------------------------------------------------------------
(* parse_fit_file applied to every file of at most MaxRecords records *)

NormInit ==
    /\ pc = "uploaded"
    /\ records \in RecordSeqs
    /\ df = NoneDf
    /\ sort_index = << >>
    /\ df_index = << >>
    /\ avg_hr_last_20min = None
    /\ lthr = None
    /\ total_duration_minutes = None
    /\ last_20_min_data = << >>
    /\ used_all_data = FALSE
    /\ zones = << >>
    /\ hr = NaN
    /\ hr_zone = ""
    /\ ExportIdle
    /\ RaceIdle

\* lines 56-57: no record was admitted
ParseNoData ==
    /\ pc = "uploaded"
    /\ all_data(records) = << >>
    /\ pc' = "loaded"
    /\ df' = NoneDf
    /\ UNCHANGED <<records, sort_index, df_index>>
    /\ UNCHANGED <<avg_hr_last_20min, lthr, total_duration_minutes,
                   last_20_min_data, used_all_data, zones, hr, hr_zone,
                   exportVars, raceVars>>

\* lines 59-72
ParseFitFile ==
    /\ pc = "uploaded"
    /\ all_data(records) # << >>
    /\ \E p \in SortIndexers(FrameRows(all_data(records))) :
           /\ df' = [isNone |-> FALSE,
                     hasHR |-> HasHeartRateColumn(all_data(records)),
                     rows |-> Permute(FrameRows(all_data(records)), p)]
           /\ sort_index' = KeptIndex(p)
           /\ df_index' = reset_index(p)
    /\ pc' = "loaded"
    /\ UNCHANGED records
    /\ UNCHANGED <<avg_hr_last_20min, lthr, total_duration_minutes,
                   last_20_min_data, used_all_data, zones, hr, hr_zone,
                   exportVars, raceVars>>

NormNext == ParseNoData \/ ParseFitFile

NormSpec == NormInit /\ [][NormNext]_vars

----------------------------------------------------------------------------
(* The band generator and the classifier on their own, for every threshold *)
(* and every value                                                         *)

Thresholds == {Frac(k, ThDen) : k \in -(MaxTh * ThDen) .. MaxTh * ThDen}
HrValues == {Some(v) : v \in -MaxHr .. MaxHr} \cup {NaN}

ZoneInit ==
    /\ pc = "estimated"
    /\ df = NoneDf
    /\ avg_hr_last_20min = None
    /\ lthr \in {Some(t) : t \in Thresholds}
    /\ total_duration_minutes = None
    /\ last_20_min_data = << >>
    /\ used_all_data = FALSE
    /\ zones = << >>
    /\ hr = NaN
    /\ hr_zone = ""
    /\ NormIdle
    /\ ExportIdle
    /\ RaceIdle

\* classify_zone applied to one value
ClassifyValue ==
    /\ pc = "zoned"
    /\ \E v \in HrValues :
           /\ hr' = v
           /\ hr_zone' = classify_zone(v, zones)
    /\ pc' = "classified"
    /\ UNCHANGED <<df, avg_hr_last_20min, lthr, total_duration_minutes,
                   last_20_min_data, used_all_data, zones>>
    /\ UNCHANGED <<normVars, exportVars, raceVars>>

ZoneNext == CalculateZones \/ ClassifyValue

ZoneSpec == ZoneInit /\ [][ZoneNext]_vars

----------------------------------------------------------------------------
(* The band generator run on one threshold after the other: every          *)
(* interaction reruns main() to completion, here with the next threshold   *)

FirstThreshold == Frac(-(MaxTh * ThDen), ThDen)

NextThreshold(t) ==
    IF t.n >= MaxTh * ThDen THEN FirstThreshold ELSE Frac(t.n + 1, ThDen)

SweepInit ==
    /\ pc = "estimated"
    /\ df = NoneDf
    /\ avg_hr_last_20min = None
    /\ lthr = Some(FirstThreshold)
    /\ total_duration_minutes = None
    /\ last_20_min_data = << >>
    /\ used_all_data = FALSE
    /\ zones = << >>
    /\ hr = NaN
    /\ hr_zone = ""
    /\ NormIdle
    /\ ExportIdle
    /\ RaceIdle

\* the next run of main()
Rerun ==
    /\ pc = "zoned"
    /\ lthr' = Some(NextThreshold(Val(lthr)))
    /\ zones' = << >>
    /\ pc' = "estimated"
    /\ UNCHANGED <<df, avg_hr_last_20min, total_duration_minutes,
                   last_20_min_data, used_all_data, hr, hr_zone>>
    /\ UNCHANGED <<normVars, exportVars, raceVars>>

SweepNext == CalculateZones \/ Rerun

SweepSpec == SweepInit /\ [][SweepNext]_vars /\ WF_vars(SweepNext)

----------------------------------------------------------------------------
(* The race dashboard: one pass of main() over every Dataset folder *)

telemetryVars == <<df, avg_hr_last_20min, lthr, total_duration_minutes,
                   last_20_min_data, used_all_data, zones, hr, hr_zone,
                   normVars, exportVars>>

TelemetryIdle ==
    /\ df = NoneDf
    /\ avg_hr_last_20min = None
    /\ lthr = None
    /\ total_duration_minutes = None
    /\ last_20_min_data = << >>
    /\ used_all_data = FALSE
    /\ zones = << >>
    /\ hr = NaN
    /\ hr_zone = ""
    /\ NormIdle
    /\ ExportIdle

\* the folders of RaceSpec: the first category with up to MaxRows rows, the
\* second with one row less
RaceDatasets ==
    DatasetsOf(ResultRows(MaxRows, {<<"A", " ">>}), MaxRows, MaxRows - 1)

RaceInit ==
    /\ pc = "start"
    /\ disk \in [ok : BOOLEAN, data : RaceDatasets]
    /\ cache = None
    /\ loads = 0
    /\ load_kind = ""
    /\ RunIdle
    /\ highlighted_name = None
    /\ TelemetryIdle

\* lines 149-153: load_race_data raised
PassLoadError ==
    /\ pc = "start"
    /\ LoadRaceData(cache, disk).raised
    /\ pc' = "done"
    /\ outcome' = "load_error"
    /\ load_kind' = LoadRaceData(cache, disk).kind
    /\ data_dict' = None
    /\ selected_event' = None
    /\ selected_categories' = << >>
    /\ search_name' = << >>
    /\ combined_df' = None
    /\ metrics' = None
    /\ highlighted_name' = None
    /\ fig' = None
    /\ UNCHANGED <<disk, cache, loads, telemetryVars>>

\* lines 155-157: nothing was found in the folder
PassNoData ==
    /\ pc = "start"
    /\ ~LoadRaceData(cache, disk).raised
    /\ Val(LoadRaceData(cache, disk).value) = << >>
    /\ pc' = "done"
    /\ outcome' = "no_data"
    /\ cache' = LoadRaceData(cache, disk).cache
    /\ loads' = IF LoadRaceData(cache, disk).ran THEN loads + 1 ELSE loads
    /\ load_kind' = LoadRaceData(cache, disk).kind
    /\ data_dict' = LoadRaceData(cache, disk).value
    /\ selected_event' = None
    /\ selected_categories' = << >>
    /\ search_name' = << >>
    /\ combined_df' = None
    /\ metrics' = None
    /\ highlighted_name' = None
    /\ fig' = None
    /\ UNCHANGED <<disk, telemetryVars>>

\* lines 159-188 and 261-262: no category is ticked
PassSelectCategory ==
    /\ pc = "start"
    /\ ~LoadRaceData(cache, disk).raised
    /\ Val(LoadRaceData(cache, disk).value) # << >>
    /\ \E event \in DOMAIN Val(LoadRaceData(cache, disk).value),
          ticked \in SUBSET Categories, text \in RaceSearchTexts :
           LET selected == SortedCategories(
                   ticked \cap DOMAIN Val(LoadRaceData(cache, disk).value)[event])
           IN  /\ ~NonEmptySelection(selected)
               /\ selected_event' = Some(event)
               /\ selected_categories' = selected
               /\ search_name' = text
    /\ pc' = "done"
    /\ outcome' = "select_category"
    /\ cache' = LoadRaceData(cache, disk).cache
    /\ loads' = IF LoadRaceData(cache, disk).ran THEN loads + 1 ELSE loads
    /\ load_kind' = LoadRaceData(cache, disk).kind
    /\ data_dict' = LoadRaceData(cache, disk).value
    /\ combined_df' = None
    /\ metrics' = None
    /\ highlighted_name' = None
    /\ fig' = None
    /\ UNCHANGED <<disk, telemetryVars>>

\* lines 159-260: the selected categories are combined, counted and plotted
PassResults ==
    /\ pc = "start"
    /\ ~LoadRaceData(cache, disk).raised
    /\ Val(LoadRaceData(cache, disk).value) # << >>
    /\ \E event \in DOMAIN Val(LoadRaceData(cache, disk).value),
          ticked \in SUBSET Categories, text \in RaceSearchTexts :
           LET tables == Val(LoadRaceData(cache, disk).value)[event]
               selected == SortedCategories(ticked \cap DOMAIN tables)
               combined == Combine(tables, selected)
               highlighted == IF text # << >> THEN Some(text) ELSE None
           IN  /\ NonEmptySelection(selected)
               /\ selected_event' = Some(event)
               /\ selected_categories' = selected
               /\ search_name' = text
               /\ combined_df' = Some(combined)
               /\ metrics' = Some([participants |-> Len(combined)])
               /\ highlighted_name' = highlighted
               /\ fig' = Some(create_scatterplot(combined, highlighted))
    /\ pc' = "done"
    /\ outcome' = "results"
    /\ cache' = LoadRaceData(cache, disk).cache
    /\ loads' = IF LoadRaceData(cache, disk).ran THEN loads + 1 ELSE loads
    /\ load_kind' = LoadRaceData(cache, disk).kind
    /\ data_dict' = LoadRaceData(cache, disk).value
    /\ UNCHANGED <<disk, telemetryVars>>

RaceNext == PassLoadError \/ PassNoData \/ PassSelectCategory \/ PassResults

RaceSpec == RaceInit /\ [][RaceNext]_vars

----------------------------------------------------------------------------
(* The loader's cache: every interaction runs main() again, while the      *)
(* folder changes and the server restarts                                  *)

\* the folders of CacheSpec: at most one row in a category
CacheDatasets == DatasetsOf(ResultRows(MaxRows, {<<"A", " ">>}), 1, 1)

CacheInit ==
    /\ pc = "start"
    /\ disk \in [ok : BOOLEAN, data : CacheDatasets]
    /\ cache = None
    /\ loads = 0
    /\ load_kind = ""
    /\ RunIdle
    /\ highlighted_name = None
    /\ TelemetryIdle

\* the next interaction: main() is run again from the top
Interaction ==
    /\ pc = "done"
    /\ pc' = "start"
    /\ data_dict' = None
    /\ selected_event' = None
    /\ selected_categories' = << >>
    /\ search_name' = << >>
    /\ combined_df' = None
    /\ metrics' = None
    /\ highlighted_name' = None
    /\ fig' = None
    /\ outcome' = ""
    /\ UNCHANGED <<disk, cache, loads, load_kind, telemetryVars>>

\* the files of the Dataset folder are replaced
DiskChange ==
    /\ disk' \in [ok : BOOLEAN, data : CacheDatasets]
    /\ disk' # disk
    /\ UNCHANGED <<pc, cache, loads, load_kind, runVars, highlighted_name,
                   telemetryVars>>

\* the server process is started again: the cache starts empty
Restart ==
    /\ pc = "done"
    /\ pc' = "start"
    /\ cache' = None
    /\ loads' = 0
    /\ load_kind' = ""
    /\ data_dict' = None
    /\ selected_event' = None
    /\ selected_categories' = << >>
    /\ search_name' = << >>
    /\ combined_df' = None
    /\ metrics' = None
    /\ highlighted_name' = None
    /\ fig' = None
    /\ outcome' = ""
    /\ UNCHANGED <<disk, telemetryVars>>

CacheNext == RaceNext \/ Interaction \/ DiskChange \/ Restart

CacheSpec == CacheInit /\ [][CacheNext]_vars

----------------------------------------------------------------------------
(* create_scatterplot on its own, for every small combined table and every *)
(* text                                                                    *)

PlotTables ==
    UNION {[1 .. l -> [Pos : 1 .. MaxPos, Name : Names, Category : Categories]]
           : l \in 0 .. MaxPlotRows}

ProjInit ==
    /\ pc = "combined"
    /\ combined_df \in {Some(t) : t \in PlotTables}
    /\ highlighted_name \in {None} \cup {Some(t) : t \in SearchTexts}
    /\ fig = None
    /\ disk = [ok |-> TRUE, data |-> << >>]
    /\ cache = None
    /\ loads = 0
    /\ load_kind = ""
    /\ data_dict = None
    /\ selected_event = None
    /\ selected_categories = << >>
    /\ search_name = << >>
    /\ metrics = None
    /\ outcome = ""
    /\ TelemetryIdle

\* fig = create_scatterplot(combined_df, highlighted_name, stat_type)
CreateScatterplot ==
    /\ pc = "combined"
    /\ pc' = "plotted"
    /\ fig' = Some(create_scatterplot(Val(combined_df), highlighted_name))
    /\ UNCHANGED <<disk, cache, loads, load_kind, data_dict, selected_event,
                   selected_categories, search_name, combined_df, metrics,
                   highlighted_name, outcome, telemetryVars>>

ProjNext == CreateScatterplot

ProjSpec == ProjInit /\ [][ProjNext]_vars

----------------------------------------------------------------------------
(* Properties of the threshold estimator, checked under Spec *)

HeartRateAt(rows, i) == rows[i].heart_rate
Indices(rows) == 1 .. Len(rows)
AllTimestampsValid(rows) == \A i \in Indices(rows) : ~IsNone(rows[i].timestamp)

\* sum and count of the present heart_rate values of the rows with index in S
RECURSIVE SumOver(_, _)
SumOver(rows, S) ==
    IF S = {} THEN 0
    ELSE LET i == CHOOSE x \in S : TRUE
         IN (IF IsNone(HeartRateAt(rows, i)) THEN 0 ELSE Val(HeartRateAt(rows, i)))
            + SumOver(rows, S \ {i})
CountOver(rows, S) == Cardinality({i \in S : ~IsNone(HeartRateAt(rows, i))})

\* the optional float x is the quotient s / n
IsQuotient(x, s, n) == ~IsNone(x) /\ Val(x).d > 0 /\ Val(x).n * n = s * Val(x).d
\* the optional float y is 0.95 * s / n
IsPoint95OfQuotient(y, s, n) ==
    ~IsNone(y) /\ Val(y).d > 0 /\ Val(y).n * n * 100 = s * 95 * Val(y).d
\* two optional floats are both absent or the same number
SameOptional(a, b) ==
    \/ IsNone(a) /\ IsNone(b)
    \/ /\ ~IsNone(a) /\ ~IsNone(b)
       /\ Val(a).d > 0 /\ Val(b).d > 0
       /\ FracEq(Val(a), Val(b))

\* the samples with timestamp >= last_timestamp - 20 min, as a set of indices
InWindow(rows) ==
    LET last == rows[Len(rows)].timestamp
    IN {i \in Indices(rows) :
           /\ ~IsNone(rows[i].timestamp)
           /\ ~IsNone(last)
           /\ Val(rows[i].timestamp) >= Val(last) - 20 * 60}
\* the selected window: that set, or the whole session when it is empty
SelectedWindow(rows) == IF InWindow(rows) = {} THEN Indices(rows) ELSE InWindow(rows)

C1_NullCase(d) ==
    \/ d.isNone
    \/ Len(d.rows) = 0
    \/ ~d.hasHR
    \/ \A i \in Indices(d.rows) : IsNone(HeartRateAt(d.rows, i))
    \/ \A i \in SelectedWindow(d.rows) : IsNone(HeartRateAt(d.rows, i))

\* C1: the estimator's tuple (window_mean, threshold, total_duration_minutes) is
\* all None or all not None; it is all None exactly when the session is None or
\* empty, heart_rate is no column or missing in every sample, or no sample of
\* the selected window has a heart_rate; otherwise threshold = window_mean * 0.95.
C1_ThreeWayNull ==
    pc # "loaded" =>
        /\ \/ IsNone(avg_hr_last_20min) /\ IsNone(lthr) /\ IsNone(total_duration_minutes)
           \/ ~IsNone(avg_hr_last_20min) /\ ~IsNone(lthr) /\ ~IsNone(total_duration_minutes)
        /\ IsNone(avg_hr_last_20min) <=> C1_NullCase(df)
        /\ ~IsNone(avg_hr_last_20min) =>
               /\ ~IsNaNFloat(Val(avg_hr_last_20min))
               /\ ~IsNaNFloat(Val(lthr))
               /\ Val(lthr).n * Val(avg_hr_last_20min).d * 100
                      = Val(avg_hr_last_20min).n * 95 * Val(lthr).d

\* a session with heart rates outside the window but none inside it: all None
C1_Witness ==
    /\ pc = "estimated"
    /\ ~df.isNone /\ df.hasHR
    /\ \E i \in Indices(df.rows) : ~IsNone(HeartRateAt(df.rows, i))
    /\ \A i \in SelectedWindow(df.rows) : IsNone(HeartRateAt(df.rows, i))
    /\ IsNone(avg_hr_last_20min) /\ IsNone(lthr) /\ IsNone(total_duration_minutes)

C2_Within20Min(d) ==
    /\ ~d.isNone /\ Len(d.rows) > 0 /\ d.hasHR
    /\ AllTimestampsValid(d.rows)
    /\ \A i, j \in Indices(d.rows) :
           Val(d.rows[i].timestamp) - Val(d.rows[j].timestamp) <= 20 * 60

\* C2: for a session whose timestamps all lie within 20 minutes, window_mean is
\* the sum of the present heart_rate values of the whole session over their count
\* and threshold is 0.95 times it; heart rates [100, 110, 120] give 110 and 104.5.
C2_WholeSessionMean ==
    (pc # "loaded" /\ C2_Within20Min(df)) =>
        LET all == Indices(df.rows)
            s == SumOver(df.rows, all)
            n == CountOver(df.rows, all)
        IN /\ n = 0 <=> IsNone(avg_hr_last_20min)
           /\ n > 0 => /\ IsQuotient(avg_hr_last_20min, s, n)
                       /\ IsPoint95OfQuotient(lthr, s, n)
           /\ [i \in all |-> HeartRateAt(df.rows, i)] = <<Some(100), Some(110), Some(120)>>
                 => /\ IsQuotient(avg_hr_last_20min, 110, 1)
                    /\ IsQuotient(lthr, 1045, 10)

\* [100, 110, 120] at 0, 10 and 20 minutes
C2_Witness ==
    /\ pc = "estimated"
    /\ ~df.isNone /\ df.hasHR
    /\ df.rows = << [timestamp |-> Some(0), heart_rate |-> Some(100)],
                    [timestamp |-> Some(600), heart_rate |-> Some(110)],
                    [timestamp |-> Some(1200), heart_rate |-> Some(120)] >>
    /\ IsQuotient(avg_hr_last_20min, 110, 1)
    /\ IsQuotient(lthr, 1045, 10)

C3_LongSession(d) ==
    /\ ~d.isNone /\ Len(d.rows) > 0 /\ d.hasHR
    /\ AllTimestampsValid(d.rows)
    /\ Val(d.rows[Len(d.rows)].timestamp) - Val(d.rows[1].timestamp) > 20 * 60

\* d with the heart_rate of sample i set to v
WithHeartRate(d, i, v) == [d EXCEPT !.rows[i].heart_rate = v]
\* d without sample i
WithoutSample(d, i) ==
    [d EXCEPT !.rows = SubSeq(d.rows, 1, i - 1) \o SubSeq(d.rows, i + 1, Len(d.rows))]
\* d with one more sample after its first p samples
WithSampleAfter(d, p, t, v) ==
    [d EXCEPT !.rows = SubSeq(d.rows, 1, p)
                          \o <<[timestamp |-> Some(t), heart_rate |-> v]>>
                          \o SubSeq(d.rows, p + 1, Len(d.rows))]

SameEstimate(d) ==
    LET r == calculate_lthr_from_last_20_minutes(d)
    IN SameOptional(r.avg, avg_hr_last_20min) /\ SameOptional(r.lthr, lthr)

\* C3: for a session longer than 20 minutes window_mean is taken over the samples
\* with timestamp >= last_timestamp - 20 min only, the sample exactly on that
\* boundary included, missing values left out of the sum and of the count;
\* changing, removing or adding the heart_rate of a sample before the boundary
\* changes neither window_mean nor threshold.
C3_WindowOnly ==
    (pc # "loaded" /\ C3_LongSession(df)) =>
        LET w == InWindow(df.rows)
            s == SumOver(df.rows, w)
            n == CountOver(df.rows, w)
            earlier == Indices(df.rows) \ w
        IN /\ n = 0 <=> IsNone(avg_hr_last_20min)
           /\ n > 0 => /\ IsQuotient(avg_hr_last_20min, s, n)
                       /\ IsPoint95OfQuotient(lthr, s, n)
           /\ \A i \in earlier :
                  /\ \A v \in {Some(h) : h \in HeartRates} \cup {NaN} :
                         SameEstimate(WithHeartRate(df, i, v))
                  /\ SameEstimate(WithoutSample(df, i))
           /\ \A p \in 0 .. Cardinality(earlier), t \in Times,
                 v \in {Some(h) : h \in HeartRates} \cup {NaN} :
                  (/\ t < Val(df.rows[Len(df.rows)].timestamp) - 20 * 60
                   /\ IsSortedByTimestamp(WithSampleAfter(df, p, t, v).rows))
                      => SameEstimate(WithSampleAfter(df, p, t, v))

\* an early sample, a sample exactly on the boundary and a missing value inside
\* the window: the mean is the boundary sample's value alone
C3_Witness ==
    /\ pc = "estimated"
    /\ C3_LongSession(df)
    /\ Len(df.rows) = 3
    /\ Val(df.rows[2].timestamp) = Val(df.rows[3].timestamp) - 20 * 60
    /\ Val(df.rows[1].timestamp) < Val(df.rows[2].timestamp)
    /\ HeartRateAt(df.rows, 1) = Some(100)
    /\ HeartRateAt(df.rows, 2) = Some(120)
    /\ IsNone(HeartRateAt(df.rows, 3))
    /\ IsQuotient(avg_hr_last_20min, 120, 1)

\* the estimator went past its two early returns (lines 89-94)
C4_Reached(d) ==
    /\ ~d.isNone /\ Len(d.rows) > 0 /\ d.hasHR
    /\ \E i \in Indices(d.rows) : ~IsNone(HeartRateAt(d.rows, i))

\* valid timestamps, the last sample more than 20 minutes after the one before
C4_GapBeforeLast(d) ==
    /\ Len(d.rows) >= 2
    /\ AllTimestampsValid(d.rows)
    /\ Val(d.rows[Len(d.rows)].timestamp)
           - Val(d.rows[Len(d.rows) - 1].timestamp) > 20 * 60

\* C4 as stated: timestamp gaps leave the window without any sample, so that the
\* fallback is taken and the mean is over the whole session.
C4_Original ==
    (pc # "loaded" /\ C4_Reached(df) /\ C4_GapBeforeLast(df)) =>
        used_all_data /\ last_20_min_data = df.rows

\* C4, amended: the window is empty, and the whole session used, exactly when the
\* last timestamp is NaT; then the mean is over the whole session.  With a valid
\* last timestamp the window holds at least the last sample, whatever the gaps.
C4_FallbackOnlyForNaT ==
    (pc # "loaded" /\ C4_Reached(df)) =>
        LET rows == df.rows
            all == Indices(rows)
        IN /\ used_all_data <=> IsNone(rows[Len(rows)].timestamp)
           /\ used_all_data =>
                  /\ last_20_min_data = rows
                  /\ IsQuotient(avg_hr_last_20min, SumOver(rows, all), CountOver(rows, all))
           /\ ~used_all_data =>
                  /\ Len(last_20_min_data) > 0
                  /\ last_20_min_data[Len(last_20_min_data)] = rows[Len(rows)]

\* a gap of more than 20 minutes before the last sample: the window is the last
\* sample alone, the fallback is not taken
C4_Witness ==
    /\ pc = "estimated"
    /\ C4_Reached(df)
    /\ C4_GapBeforeLast(df)
    /\ ~used_all_data
    /\ last_20_min_data = <<df.rows[Len(df.rows)]>>
    /\ Len(df.rows) = 3

----------------------------------------------------------------------------
(* Properties of the band generator and the classifier, checked under      *)
(* ZoneSpec (C6 under SweepSpec)                                           *)

ZonesComputed == pc \in {"zoned", "classified"}
ZoneKeys == <<"Z1", "Z2", "Z3", "Z4", "Z5">>
ZonePercentages == << <<62, 77>>, <<77, 86>>, <<86, 91>>, <<91, 95>>, <<95, 103>> >>
Low(k) == zones[k].range[1]
High(k) == zones[k].range[2]
ThresholdIs(n) == ~IsNone(lthr) /\ Val(lthr).n = n * Val(lthr).d

\* the integer b is the quotient x / den (den > 0) with its fraction cut off
IsTruncationOf(b, x, den) ==
    IF x >= 0
    THEN b >= 0 /\ b * den <= x /\ x < (b + 1) * den
    ELSE b <= 0 /\ b * den >= x /\ x > (b - 1) * den

\* C5: the band generator returns five bands, in the order Z1 .. Z5, each bound
\* the truncation of threshold * pct for the pairs (62,77), (77,86), (86,91),
\* (91,95), (95,103), all from the same threshold; 150 gives [93,115], [115,129],
\* [129,136], [136,142], [142,154].
C5_FiveTruncatedBands ==
    ZonesComputed =>
        /\ Len(zones) = 5
        /\ \A k \in 1 .. 5 :
               /\ zones[k].key = ZoneKeys[k]
               /\ IsTruncationOf(Low(k), Val(lthr).n * ZonePercentages[k][1],
                                 Val(lthr).d * 100)
               /\ IsTruncationOf(High(k), Val(lthr).n * ZonePercentages[k][2],
                                 Val(lthr).d * 100)
        /\ ThresholdIs(150) =>
               [k \in 1 .. 5 |-> zones[k].range]
                   = << <<93, 115>>, <<115, 129>>, <<129, 136>>, <<136, 142>>, <<142, 154>> >>

C5_Witness ==
    /\ pc = "zoned"
    /\ ThresholdIs(150)
    /\ zones[1] = [key |-> "Z1", range |-> <<93, 115>>]
    /\ zones[5] = [key |-> "Z5", range |-> <<142, 154>>]

\* C6 as stated: for some threshold the upper bound of a band differs from the
\* lower bound of the next band.
C6_Original ==
    <>(pc = "zoned" /\ \E k \in 1 .. 4 : High(k) # Low(k + 1))

\* C6, amended: for every threshold the upper bound of each band equals the lower
\* bound of the next band, k in 1..4: both are the same truncated product.
C6_SharedBoundsEqual ==
    pc = "zoned" => \A k \in 1 .. 4 : High(k) = Low(k + 1)

\* threshold 150: 150 * 0.77 = 115.5 is cut to 115 on both sides of the boundary
C6_Witness ==
    /\ pc = "zoned"
    /\ ThresholdIs(150)
    /\ High(1) = 115 /\ Low(2) = 115

\* C7 as stated: a zero or negative threshold gives five bands Z1 .. Z5 with
\* low <= high.
C7_Original ==
    (ZonesComputed /\ Val(lthr).n <= 0) =>
        /\ Len(zones) = 5
        /\ \A k \in 1 .. 5 : zones[k].key = ZoneKeys[k] /\ Low(k) <= High(k)

\* C7, amended: a zero or negative threshold gives, without error, five bands
\* Z1 .. Z5 with integer bounds; threshold 0 gives [0,0] five times; a negative
\* threshold gives bounds <= 0 with high <= low in every band (the interval is
\* reversed or a single point), so low <= high holds only where they are equal.
C7_ReversedBands ==
    (ZonesComputed /\ Val(lthr).n <= 0) =>
        /\ Len(zones) = 5
        /\ \A k \in 1 .. 5 :
               /\ zones[k].key = ZoneKeys[k]
               /\ Low(k) \in Int /\ High(k) \in Int
               /\ High(k) <= Low(k) /\ Low(k) <= 0
               /\ Val(lthr).n = 0 => zones[k].range = <<0, 0>>

\* threshold -150: Z1 = [-93, -115]
C7_Witness ==
    /\ pc = "zoned"
    /\ ThresholdIs(-150)
    /\ zones[1].range = <<-93, -115>>
    /\ \A k \in 1 .. 5 : High(k) < Low(k)

\* the bands whose closed interval holds the present value v
Matching(v) == {k \in 1 .. Len(zones) : Low(k) <= v /\ v <= High(k)}
Lowest(S) == CHOOSE k \in S : \A j \in S : k <= j

\* C8: the first band in the order Z1 .. Z5 whose closed interval holds the value
\* wins: a value on a boundary shared by two bands gets the lower-numbered band;
\* 115 with the bands of threshold 150 is Z1.
C8_FirstMatchWins ==
    (pc = "classified" /\ ~IsNone(hr)) =>
        /\ Matching(Val(hr)) # {} => hr_zone = ZoneKeys[Lowest(Matching(Val(hr)))]
        /\ (ThresholdIs(150) /\ Val(hr) = 115) => hr_zone = "Z1"

C8_Witness ==
    /\ pc = "classified"
    /\ ThresholdIs(150)
    /\ hr = Some(115)
    /\ Matching(115) = {1, 2}
    /\ hr_zone = "Z1"

\* C9: a present value is 'Above Z5' or 'Below Z1' only when no band holds it, and
\* then it is 'Above Z5' exactly when it is greater than Z5's upper bound and
\* 'Below Z1' otherwise.
C9_OutOfRange ==
    (pc = "classified" /\ ~IsNone(hr)) =>
        /\ hr_zone \in {"Above Z5", "Below Z1"} => Matching(Val(hr)) = {}
        /\ Matching(Val(hr)) = {} =>
               /\ hr_zone = "Above Z5" <=> Val(hr) > High(5)
               /\ hr_zone = "Below Z1" <=> ~(Val(hr) > High(5))

C9_Witness ==
    /\ pc = "classified"
    /\ ThresholdIs(150)
    /\ hr = Some(155)
    /\ Matching(155) = {}
    /\ hr_zone = "Above Z5"

\* C10: a missing value is 'No Data' for every band set, those of zero and
\* negative thresholds included, and no present value is 'No Data'.
C10_NoData ==
    pc = "classified" => (IsNone(hr) <=> hr_zone = "No Data")

\* a missing value with the reversed bands of a negative threshold
C10_Witness ==
    /\ pc = "classified"
    /\ Val(lthr).n < 0
    /\ \E k \in 1 .. 5 : High(k) < Low(k)
    /\ IsNone(hr)
    /\ hr_zone = "No Data"

----------------------------------------------------------------------------
(* Properties of the normalizer, checked under NormSpec *)

\* the places in the file of the records that carry a timestamp field
TimestampedPlaces(recs) ==
    {i \in 1 .. Len(recs) : "timestamp" \in DOMAIN recs[i]}

\* the k-th of them, in file order
NthTimestamped(recs, k) ==
    CHOOSE i \in TimestampedPlaces(recs) :
        Cardinality({j \in TimestampedPlaces(recs) : j <= i}) = k

\* the record the k-th output sample was made from
SourceRecord(k) == records[NthTimestamped(records, sort_index[k] + 1)]

Parsed == pc = "loaded"

\* C11: parse_fit_file keeps a record exactly when it carries a timestamp
\* field: the output has as many samples as the file has records with a
\* timestamp (none of them giving the None result), the samples are made of
\* distinct timestamped records, each with that record's timestamp and
\* heart rate, whatever other fields the record has or lacks.
C11_AdmittedIffTimestamp ==
    Parsed =>
        /\ Len(df.rows) = Cardinality(TimestampedPlaces(records))
        /\ df.isNone <=> TimestampedPlaces(records) = {}
        /\ Len(sort_index) = Len(df.rows)
        /\ \A k \in 1 .. Len(df.rows) :
               /\ sort_index[k] \in 0 .. Len(df.rows) - 1
               /\ \A m \in 1 .. Len(df.rows) :
                      sort_index[k] = sort_index[m] => k = m
               /\ df.rows[k].timestamp = SourceRecord(k)["timestamp"]
               /\ df.rows[k].heart_rate =
                      IF "heart_rate" \in DOMAIN SourceRecord(k)
                      THEN SourceRecord(k)["heart_rate"] ELSE NaN

\* a file with a record of heart rate only, which is dropped, and a record
\* of a timestamp only, which is kept
C11_Witness ==
    /\ Parsed
    /\ \E i \in 1 .. Len(records) : DOMAIN records[i] = {"heart_rate"}
    /\ \E i \in 1 .. Len(records) : DOMAIN records[i] = {"timestamp"}
    /\ Len(df.rows) = 2
    /\ Len(records) = 3

\* C12: in whatever order the file lists its timestamped records, the
\* output samples are in non-decreasing order of timestamp (the samples
\* without a timestamp value after all others) and are indexed 0 .. n-1.
C12_SortedAndReindexed ==
    (Parsed /\ ~df.isNone) =>
        /\ \A i, j \in 1 .. Len(df.rows) :
               i < j =>
                   /\ IsNone(df.rows[i].timestamp) => IsNone(df.rows[j].timestamp)
                   /\ (~IsNone(df.rows[i].timestamp) /\ ~IsNone(df.rows[j].timestamp))
                          => Val(df.rows[i].timestamp) <= Val(df.rows[j].timestamp)
        /\ Len(df_index) = Len(df.rows)
        /\ \A k \in 1 .. Len(df.rows) : df_index[k] = k - 1

\* a file that lists a later sample before an earlier one
C12_Witness ==
    /\ Parsed
    /\ Len(df.rows) = 3
    /\ \E i, j \in TimestampedPlaces(records) :
           /\ i < j
           /\ records[i]["timestamp"] = Some(600)
           /\ records[j]["timestamp"] = Some(0)
    /\ sort_index # df_index

\* C13: the sort is stable: two samples with equal timestamps are in the
\* output in the order their records have in the file.
C13_StableSort ==
    Parsed =>
        \A i, j \in 1 .. Len(df.rows) :
            (i < j /\ df.rows[i].timestamp = df.rows[j].timestamp)
                => sort_index[i] < sort_index[j]

----------------------------------------------------------------------------
(* Properties of create_scatterplot, checked under ProjSpec *)

\* a letter without its case
Fold(c) == IF c \in {"a", "A"} THEN "a" ELSE IF c \in {"b", "B"} THEN "b" ELSE c

\* a string from its first to its last character that is not a space,
\* without case
TrimmedLower(s) ==
    LET inked == {i \in 1 .. Len(s) : s[i] # " "}
        first == CHOOSE i \in inked : \A j \in inked : i <= j
        last == CHOOSE i \in inked : \A j \in inked : j <= i
    IN  IF inked = {} THEN << >>
        ELSE [k \in 1 .. last - first + 1 |-> Fold(s[first + k - 1])]

FilterGiven == ~IsNone(highlighted_name) /\ Len(Val(highlighted_name)) > 0

NameMatchesFilter(row) ==
    FilterGiven /\ TrimmedLower(row.Name) = TrimmedLower(Val(highlighted_name))

Plotted == pc = "plotted"

\* C14: create_scatterplot gives a row the highlight marker when a
\* non-empty filter is given and the trimmed, lower-cased name equals the
\* trimmed, lower-cased filter, whatever the rank; otherwise gold, silver or
\* bronze for rank 1, 2 or 3; otherwise the default marker.  Two rows with
\* the same name and rank get the same marker whatever their Category.
C14_MarkerPrecedence ==
    Plotted =>
        /\ Len(Val(fig)) = Len(Val(combined_df))
        /\ \A i \in 1 .. Len(Val(combined_df)) :
               LET row == Val(combined_df)[i]
                   marker == Val(fig)[i]
               IN  IF NameMatchesFilter(row)
                   THEN marker = [color |-> "#FF0000", size |-> 15, symbol |-> "star"]
                   ELSE IF row.Pos = 1
                   THEN marker = [color |-> "#FFD700", size |-> 12, symbol |-> "circle"]
                   ELSE IF row.Pos = 2
                   THEN marker = [color |-> "#C0C0C0", size |-> 12, symbol |-> "circle"]
                   ELSE IF row.Pos = 3
                   THEN marker = [color |-> "#CD7F32", size |-> 12, symbol |-> "circle"]
                   ELSE marker = [color |-> "#1f77b4", size |-> 8, symbol |-> "circle"]
        /\ \A i, j \in 1 .. Len(Val(combined_df)) :
               (/\ Val(combined_df)[i].Name = Val(combined_df)[j].Name
                /\ Val(combined_df)[i].Pos = Val(combined_df)[j].Pos)
                   => Val(fig)[i] = Val(fig)[j]

\* two winners of different categories, one of them searched for with a
\* text that differs from the name in case and spaces: the searched one is
\* highlighted, the other one is gold
C14_Witness ==
    /\ Plotted
    /\ highlighted_name = Some(<<" ", "A">>)
    /\ Val(combined_df) =
           <<[Pos |-> 1, Name |-> <<"a">>, Category |-> "Elite Men"],
             [Pos |-> 1, Name |-> <<"b">>, Category |-> "Elite Women"]>>
    /\ Val(fig)[1].symbol = "star"
    /\ Val(fig)[2].color = "#FFD700"

----------------------------------------------------------------------------
(* Properties of the dashboard's main(), checked under RaceSpec (C16 under *)
(* CacheSpec)                                                              *)

\* the table of the k-th selected category, as loaded
SelectedTable(k) == Val(data_dict)[Val(selected_event)][selected_categories[k]]

\* the number of rows of the selected tables before the k-th
RECURSIVE RowsBefore(_)
RowsBefore(k) == IF k <= 1 THEN 0 ELSE RowsBefore(k - 1) + Len(SelectedTable(k - 1))

ResultsShown == pc = "done" /\ outcome = "results"

\* C15: the combined table has as many rows as the selected tables have
\* together; the rows of the k-th selected table are the block that follows
\* the rows of the tables selected before it, in their own order, each with
\* its rank and name unchanged and its Category set to that table's name.
C15_ConcatenatedBlocks ==
    ResultsShown =>
        /\ Len(Val(combined_df)) = RowsBefore(Len(selected_categories) + 1)
        /\ \A k \in 1 .. Len(selected_categories) :
               \A i \in 1 .. Len(SelectedTable(k)) :
                   Val(combined_df)[RowsBefore(k) + i] =
                       [Pos |-> SelectedTable(k)[i].Pos,
                        Name |-> SelectedTable(k)[i].Name,
                        Category |-> selected_categories[k]]

\* tables of 3 and 2 rows, neither in rank order, combined into 5 rows
C15_Witness ==
    /\ ResultsShown
    /\ selected_categories = <<"Elite Men", "Elite Women">>
    /\ Len(SelectedTable(1)) = 3
    /\ Len(SelectedTable(2)) = 2
    /\ SelectedTable(1)[1].Pos > SelectedTable(1)[2].Pos
    /\ SelectedTable(2)[1].Pos > SelectedTable(2)[2].Pos
    /\ Len(Val(combined_df)) = 5

\* C16: in one server process the body of load_race_data runs at most once;
\* from then on the cache holds what that run returned and every pass gets
\* the cached events and categories, whatever the Dataset folder holds by
\* then.
C16_LoadedOncePerProcess ==
    /\ loads <= 1
    /\ loads = 0 <=> IsNone(cache)
    /\ (pc = "done" /\ outcome # "load_error") =>
           /\ loads = 1
           /\ data_dict = cache

\* a pass that got the cached events although the folder, readable, held
\* other files when it ran, and shows results the folder no longer has
C16_Witness ==
    /\ pc = "done"
    /\ outcome = "results"
    /\ load_kind = "cached_stale"
    /\ loads = 1
    /\ disk.ok
    /\ disk.data = << >>
    /\ data_dict = cache

\* the pass chose among the categories of a loaded event and none is ticked
NothingSelected ==
    pc = "done" /\ ~IsNone(selected_event) /\ selected_categories = << >>

\* C17: a pass in which no category is ticked ends with the notice to
\* select at least one category; it builds no combined table, computes no
\* metric and draws no figure, and it is not an error.
C17_EmptySelectionNotice ==
    NothingSelected =>
        /\ outcome = "select_category"
        /\ IsNone(combined_df)
        /\ IsNone(metrics)
        /\ IsNone(fig)

\* an event with two non-empty categories, both unticked
C17_Witness ==
    /\ NothingSelected
    /\ outcome = "select_category"
    /\ DOMAIN Val(data_dict)[Val(selected_event)] = Categories
    /\ \A c \in Categories : Len(Val(data_dict)[Val(selected_event)][c]) > 0

----------------------------------------------------------------------------
(* Properties of the custom export, checked under Spec *)

Exported == pc = "exported"

ExportCol(i, column) == Val(export_df).rows[i][column]

\* the float f is the whole number n
IsWhole(f, n) == f.d # 0 /\ f.n = n * f.d

\* the float m is the float s divided by 60; NaN for NaN
IsSixtieth(m, s) ==
    IF s.d = 0 THEN m.d = 0 ELSE m.d # 0 /\ m.n * s.d * 60 = s.n * m.d

\* C18: the export has the columns hr_zone and lthr exactly when heart_rate
\* is ticked, each row's hr_zone being classify_zone of its heart rate and
\* its lthr the session's threshold; it has time_elapsed_seconds and
\* time_elapsed_minutes exactly when timestamp is ticked, each row's seconds
\* being its timestamp minus the first row's (0 in the first row, never
\* negative, never less than in the row above; no number where the row has
\* no timestamp) and its minutes the seconds divided by 60.
C18_ExportColumns ==
    Exported =>
        /\ Val(export_df).columns \cap {"timestamp", "heart_rate"} = selected_fields
        /\ "hr_zone" \in Val(export_df).columns <=> "heart_rate" \in selected_fields
        /\ "lthr" \in Val(export_df).columns <=> "heart_rate" \in selected_fields
        /\ "time_elapsed_seconds" \in Val(export_df).columns
               <=> "timestamp" \in selected_fields
        /\ "time_elapsed_minutes" \in Val(export_df).columns
               <=> "timestamp" \in selected_fields
        /\ Len(Val(export_df).rows) = Len(df.rows)
        /\ "heart_rate" \in selected_fields =>
               \A i \in 1 .. Len(df.rows) :
                   /\ ExportCol(i, "heart_rate") = df.rows[i].heart_rate
                   /\ ExportCol(i, "hr_zone") =
                          classify_zone(df.rows[i].heart_rate, zones)
                   /\ ExportCol(i, "lthr") = Val(lthr)
        /\ "timestamp" \in selected_fields =>
               /\ IsWhole(ExportCol(1, "time_elapsed_seconds"), 0)
               /\ \A i \in 1 .. Len(df.rows) :
                      /\ ExportCol(i, "timestamp") = df.rows[i].timestamp
                      /\ IF IsNone(df.rows[i].timestamp)
                         THEN IsNaNFloat(ExportCol(i, "time_elapsed_seconds"))
                         ELSE /\ IsWhole(ExportCol(i, "time_elapsed_seconds"),
                                         Val(df.rows[i].timestamp)
                                             - Val(df.rows[1].timestamp))
                              /\ ExportCol(i, "time_elapsed_seconds").n >= 0
                              /\ \A j \in 1 .. i :
                                     ExportCol(j, "time_elapsed_seconds").n
                                         <= ExportCol(i, "time_elapsed_seconds").n
                      /\ IsSixtieth(ExportCol(i, "time_elapsed_minutes"),
                                    ExportCol(i, "time_elapsed_seconds"))

\* an export of both fields of a session of three samples, 10 and 30 minutes
\* after the first, with heart rates in different bands
C18_Witness ==
    /\ Exported
    /\ selected_fields = {"timestamp", "heart_rate"}
    /\ Len(df.rows) = 3
    /\ IsWhole(ExportCol(2, "time_elapsed_seconds"), 600)
    /\ IsWhole(ExportCol(3, "time_elapsed_seconds"), 1800)
    /\ IsSixtieth(ExportCol(3, "time_elapsed_minutes"), Frac(1800, 1))
    /\ ExportCol(1, "hr_zone") # ExportCol(3, "hr_zone")
    /\ ExportCol(3, "lthr") = Val(lthr)

----------------------------------------------------------------------------
(* The bands and the classifier together, checked under ZoneSpec *)

\* C19: the bands of a threshold that is not negative each have
\* low <= high, start in the order Z1 .. Z5 and leave no gap (each starts no
\* later than the one before ends); so a present value from Z1's lower to
\* Z5's upper bound is classified Z1 .. Z5, 'Below Z1' is given only to
\* values under Z1's lower bound and 'Above Z5' only to values over Z5's
\* upper bound.
C19_NoGapNoStray ==
    (ZonesComputed /\ Val(lthr).n >= 0) =>
        /\ \A k \in 1 .. 5 : Low(k) <= High(k)
        /\ \A k \in 1 .. 4 : Low(k) <= Low(k + 1) /\ Low(k + 1) <= High(k)
        /\ (pc = "classified" /\ ~IsNone(hr)) =>
               /\ (Low(1) <= Val(hr) /\ Val(hr) <= High(5))
                      => hr_zone \in {"Z1", "Z2", "Z3", "Z4", "Z5"}
               /\ hr_zone = "Below Z1" => Val(hr) < Low(1)
               /\ hr_zone = "Above Z5" => Val(hr) > High(5)

\* the lower end of the bands of threshold 150.5, which run from 93 to 155:
\* 93 is Z1
C19_Witness ==
    /\ pc = "classified"
    /\ Val(lthr).n = 301 /\ Val(lthr).d = 2
    /\ Low(1) = 93
    /\ High(5) = 155
    /\ hr = Some(93)
    /\ hr_zone = "Z1"

============================================================================
